---- MODULE Spec2Model ----
(***************************************************************************)
(* ledradar: the background refresh loop (Handler.BackgroundLoop), the     *)
(* reader (Handler.HandleGet), the sampler (getAvgColor) and the raster    *)
(* download (downloadRadar) of ledradar.go.                                *)
(*                                                                         *)
(* Time is counted in whole minutes of UTC.  Latitudes and longitudes are  *)
(* fixed-point integers in units of 1e-7 degree, and the float divisions   *)
(* of the projection are computed exactly.                                 *)
(***************************************************************************)
EXTENDS Integers, Sequences, FiniteSets, TLC

\* ---------------------------------------------------------------- bounds
RasterW == 8
RasterH == 6
StartTime == 100
MaxTime == 115
NumReaders == 2

\* ------------------------------------------------------ program constants
lon0 == 112673442
lat0 == 521670717
lon1 == 207703153
lat1 == 481000000
Hour == 60
BucketMinutes == 10
SleepMinutes == 1
HalfWidth == 4
MarkerHalf == 5

None == "none"

\* The variable bitmap outside the closure of the loop body.
NoBitmap == << >>

\* ----------------------------------------------------------------- cities
\* h.Cities as LoadCities leaves it: Praha, Brno, and Kosice, which lies
\* east of lon1.
Cities ==
  << [ID |-> 1, Name |-> "Praha",  Lat |-> 500877000, Lon |-> 144213000],
     [ID |-> 2, Name |-> "Brno",   Lat |-> 491951000, Lon |-> 166068000],
     [ID |-> 3, Name |-> "Kosice", Lat |-> 487164000, Lon |-> 212611000] >>

CityIdx == 1..Len(Cities)

\* ------------------------------------------------------------ the rasters
Transparent == <<0, 0, 0, 0>>

Xs == 0..(RasterW - 1)
Ys == 0..(RasterH - 1)

\* The decoded images the raster source can serve.
RasterIds == {"clear", "east", "all"}

RasterPixel(id, x, y) ==
  CASE id = "clear" -> Transparent
    [] id = "east"  -> IF x = RasterW - 1 THEN <<0, 120, 255, 255>> ELSE Transparent
    [] id = "all"   -> <<216, 40, 0, 255>>

\* What the raster source can answer with status 200: a PNG of one of the
\* rasters, or bytes that are not an image.
Garbage == "garbage"
Bodies == RasterIds \cup {Garbage}

\* imaging.Decode + imaging.Clone: the NRGBA bitmap of a well-formed body.
DecodeOK(body) == body \in RasterIds

Decode(body) == [p \in Xs \X Ys |-> RasterPixel(body, p[1], p[2])]

\* ------------------------------------------------------------ arithmetic
\* Go's float64 -> int conversion truncates toward zero.
TruncDiv(n, d) == IF n >= 0 THEN n \div d ELSE -((-n) \div d)

ProjectX(city, w) == TruncDiv((city.Lon - lon0) * w, lon1 - lon0)

ProjectY(city, h) == TruncDiv((lat0 - city.Lat) * h, lat0 - lat1)

\* image.NRGBA.At: the zero colour outside the bounds.
At(img, x, y) == IF <<x, y>> \in DOMAIN img THEN img[<<x, y>>] ELSE Transparent

\* color.NRGBA.RGBA: the alpha-premultiplied 16-bit channel.
RGBA16(v, a) == ((v * 257) * a) \div 255

Side == 2 * HalfWidth + 1

\* r / 257 of the pixel at (x, y) for channel ch.
Sample(img, x, y, ch) == RGBA16(At(img, x, y)[ch], At(img, x, y)[4]) \div 257

\* What the inner loop (yy) adds to a channel's total for one xx.
ColumnTotal(img, x, y, ch, xx) ==
  LET part[yy \in (-HalfWidth - 1)..HalfWidth] ==
        IF yy < -HalfWidth THEN 0
        ELSE part[yy - 1] + Sample(img, x + xx, y + yy, ch)
  IN part[HalfWidth]

\* totalR, totalG or totalB after the outer loop (xx).
ChannelTotal(img, x, y, ch) ==
  LET part[xx \in (-HalfWidth - 1)..HalfWidth] ==
        IF xx < -HalfWidth THEN 0
        ELSE part[xx - 1] + ColumnTotal(img, x, y, ch, xx)
  IN part[HalfWidth]

getAvgColor(img, x, y) ==
  LET total == Side * Side
  IN << (ChannelTotal(img, x, y, 1) \div total) % 256,
        (ChannelTotal(img, x, y, 2) \div total) % 256,
        (ChannelTotal(img, x, y, 3) \div total) % 256 >>

\* The threshold test with >= in place of >.
IsRainingOrEqual(c) == ((c[1] + c[2] + c[3]) % 256) >= 0

\* r+g+b > 0 on uint8 operands.
IsRaining(c) == ((c[1] + c[2] + c[3]) % 256) > 0

\* draw.Draw(bitmap, image.Rect(x-5, y-5, x+5, y+5), uniform, _, draw.Src)
Draw(img, x, y, c) ==
  [p \in DOMAIN img |->
     IF /\ x - MarkerHalf <= p[1] /\ p[1] < x + MarkerHalf
        /\ y - MarkerHalf <= p[2] /\ p[2] < y + MarkerHalf
     THEN <<c[1], c[2], c[3], 255>>
     ELSE img[p]]

Black == <<0, 0, 0>>

\* --------------------------------------------------------- time and names
Digits2(n) == << n \div 10, n % 10 >>

Digits8(n) == [i \in 1..8 |-> (n \div (10 ^ (8 - i))) % 10]

\* date.Format("20060102.1504"): eight date digits (here the day number),
\* a dot, the hour and the minute.
Format(t) == Digits8(t \div 1440) \o <<".">> \o Digits2((t % 1440) \div 60) \o Digits2(t % 60)

\* The key with its last digit left as it is.
DateTxtExact(t) == Format(t)

\* formattedDate[:len(format)-1] + "0"
DateTxt(t) == SubSeq(Format(t), 1, Len(Format(t)) - 1) \o <<0>>

Prefix == "radar_a_mesta_"

ArtifactName(txt) == <<Prefix, txt, ".png">>

HasPrefix(name) == name[1] = Prefix

CsvName == <<"mesta.csv">>

\* A Stat that never finds the artifact.
ExistsNever(fs, name) == FALSE

\* A Stat that finds the artifact exactly when it is not there.
ExistsNegated(fs, name) == name \notin DOMAIN fs

\* os.Stat(p) returned no error.
Exists(fs, name) == name \in DOMAIN fs

\* The age test the wrong way round.
IsOldInverted(t, mtime) == (t - mtime) < Hour

\* An age test that every file fails.
IsOldAlways(t, mtime) == TRUE

\* time.Since(fileInfo.ModTime()) < time.Hour is false.
IsOld(t, mtime) == ~((t - mtime) < Hour)


\* ------------------------------------------------------------------ state
VARIABLES
  alive,           \* the process has neither panicked nor called os.Exit
  pc,              \* position of BackgroundLoop
  now,             \* the clock, minutes
  files,           \* the working directory: name -> modification time
  dateTxt,         \* local of the loop body
  content,         \* local of the loop body
  bitmap,          \* local of the loop body
  idx,             \* position of the range loop over h.Cities
  CitiesWithRain,  \* h.CitiesWithRain: a sequence of pointers into h.Cities
  color,           \* the R, G, B fields of each City
  wlock,           \* h.m, writer side: "free", "pending" or "held"
  rpc,             \* position of each HandleGet call
  rslice,          \* the slice value handed to Encode by each call
  rout,            \* what each call has written to its response so far
  published,       \* history: the view left by the last cycle that returned
  publishedRaster, \* history: the body that cycle had downloaded
  curKey,          \* history: the last dateTxt computed
  attempts,        \* history: downloads started for curKey
  okFetches,       \* history: downloads that returned a body for curKey
  classifications, \* history: classification loops started for curKey
  tickEvent,       \* history: how the last loop body ended
  swept,           \* history: names removed by the last sweep
  sweepFailed,     \* history: names the last sweep could not remove
  probe,           \* the input of one computation of the loop body taken alone
  answer           \* what that computation returned, << >> before it has run

progVars == << alive, pc, now, files, dateTxt, content, bitmap, idx, CitiesWithRain,
               color, wlock, rpc, rslice, rout, published, publishedRaster, curKey,
               attempts, okFetches, classifications, tickEvent, swept,
               sweepFailed >>

probeVars == << probe, answer >>

vars == << progVars, probeVars >>

loopLocals == << dateTxt, content, bitmap, idx >>
store == << CitiesWithRain, color >>
readerVars == << rpc, rslice, rout >>
bucketHist == << curKey, attempts, okFetches, classifications >>
sweepHist == << swept, sweepFailed >>
pubHist == << published, publishedRaster >>

Readers == 1..NumReaders

\* What json.Encode(h.CitiesWithRain) writes for the store as it stands.
Member(c, col) == [ID |-> Cities[c].ID, R |-> col[c][1], G |-> col[c][2], B |-> col[c][3]]

ViewOf(list, col) == [k \in 1..Len(list) |-> Member(list[k], col)]

View == ViewOf(CitiesWithRain, color)

\* The artifacts a previous run of the program has left behind: created at
\* minutes 10, 40 and 70.
LeftOver == {10, 40, 70}

InitFiles(S) ==
  [n \in {CsvName} \cup {ArtifactName(DateTxt(t)) : t \in S} |->
     IF n = CsvName THEN 0
     ELSE CHOOSE t \in S : n = ArtifactName(DateTxt(t))]

\* The program after main has loaded the cities and started the loop.
Start ==
  /\ alive = TRUE
  /\ pc = "start"
  /\ now = StartTime
  /\ files = InitFiles(LeftOver)
  /\ dateTxt = << >>
  /\ content = None
  /\ bitmap = NoBitmap
  /\ idx = 0
  /\ CitiesWithRain = << >>
  /\ color = [c \in CityIdx |-> Black]
  /\ wlock = "free"
  /\ rpc = [r \in Readers |-> "idle"]
  /\ rslice = [r \in Readers |-> << >>]
  /\ rout = [r \in Readers |-> << >>]
  /\ published = << >>
  /\ publishedRaster = None
  /\ curKey = << >>
  /\ attempts = 0
  /\ okFetches = 0
  /\ classifications = 0
  /\ tickEvent = None
  /\ swept = {}
  /\ sweepFailed = {}

NoProbe == [kind |-> "none"]

Init ==
  /\ Start
  /\ probe = NoProbe
  /\ answer = << >>

\* ------------------------------------------------- BackgroundLoop, lines 117-144
\* The names the sweep wants to remove, given the entries ReadDir returned.
SweepCandidates(fs, listed, t) == {n \in listed : HasPrefix(n) /\ IsOld(t, fs[n])}

Janitor ==
  /\ alive /\ pc = "start"
  /\ \E listed \in {DOMAIN files, {}} :
       \E failed \in SUBSET SweepCandidates(files, listed, now) :
         LET gone == SweepCandidates(files, listed, now) \ failed
         IN /\ files' = [n \in DOMAIN files \ gone |-> files[n]]
            /\ swept' = gone
            /\ sweepFailed' = SweepCandidates(files, DOMAIN files, now) \ gone
  /\ pc' = "check"
  /\ tickEvent' = None
  /\ UNCHANGED << probeVars, alive, now, loopLocals, store, wlock, readerVars, pubHist, bucketHist >>

\* lines 146-156
CheckCache ==
  /\ alive /\ pc = "check"
  /\ dateTxt' = DateTxt(now)
  /\ IF curKey = DateTxt(now)
     THEN UNCHANGED bucketHist
     ELSE /\ curKey' = DateTxt(now)
          /\ attempts' = 0 /\ okFetches' = 0 /\ classifications' = 0
  /\ IF Exists(files, ArtifactName(DateTxt(now)))
     THEN /\ pc' = "sleep" /\ tickEvent' = "skip"
     ELSE /\ pc' = "fetch" /\ UNCHANGED tickEvent
  /\ UNCHANGED << probeVars, alive, now, files, content, bitmap, idx, store, wlock, readerVars,
                  pubHist, sweepHist >>

\* The download has no timeout: time passes while it is under way.
FetchSteps == {5}

\* The sleep lasts at least SleepMinutes; the rest of the loop body adds to it.
SleepSteps == {5, 10}

FetchTakesTime ==
  /\ alive /\ pc = "fetch"
  /\ \E d \in FetchSteps : now + d <= MaxTime /\ now' = now + d
  /\ UNCHANGED << probeVars, alive, pc, files, loopLocals, store, wlock, readerVars, pubHist,
                  bucketHist, tickEvent, sweepHist >>

\* downloadRadar, lines 52-65, and its caller, lines 158-162.  http.Get
\* answers with a transport error (resp is nil), with a status other than
\* 200, or with status 200 and a body.
FetchOutcomes == {"neterror", "badstatus", "ok"}

\* err != nil || resp.StatusCode != 200
DownloadFailed(outcome) == outcome = "neterror" \/ outcome = "badstatus"

\* log.Printf("HTTP %d ...", resp.StatusCode) dereferences resp.
FailureLogPanics(outcome) == outcome = "neterror"

Fetch ==
  /\ alive /\ pc = "fetch"
  /\ attempts' = attempts + 1
  /\ \E outcome \in FetchOutcomes :
       IF DownloadFailed(outcome)
       THEN IF FailureLogPanics(outcome)
            THEN /\ alive' = FALSE /\ pc' = "crashed" /\ tickEvent' = "neterror"
                 /\ UNCHANGED << content, okFetches >>
            ELSE /\ pc' = "sleep" /\ tickEvent' = "badstatus"
                 /\ UNCHANGED << alive, content, okFetches >>
       ELSE /\ \E body \in Bodies : content' = body
            /\ okFetches' = okFetches + 1
            /\ pc' = "decode"
            /\ UNCHANGED << alive, tickEvent >>
  /\ UNCHANGED << probeVars, now, files, dateTxt, bitmap, idx, store, wlock, readerVars, pubHist,
                  curKey, classifications, sweepHist >>

\* lines 164-168
DecodeImage ==
  /\ alive /\ pc = "decode"
  /\ IF DecodeOK(content)
     THEN /\ bitmap' = Decode(content) /\ pc' = "lock"
          /\ UNCHANGED << alive, tickEvent >>
     ELSE /\ alive' = FALSE /\ pc' = "exited" /\ tickEvent' = "decodefail"
          /\ UNCHANGED bitmap
  /\ UNCHANGED << probeVars, now, files, dateTxt, content, idx, store, wlock, readerVars, pubHist,
                  bucketHist, sweepHist >>


\* ------------------------------------------------------------ h.m (RWMutex)
Reading(r) == rpc[r] \in {"locked", "encoding"}

\* Lock() that does not wait for the active readers.
CanLockAlways == TRUE

\* Lock() first turns new readers away, then waits for the active ones.
CanLock == \A r \in Readers : ~Reading(r)

\* RLock() that does not wait for the writer.
CanRLockIgnoringWriter == TRUE

\* RLock() waits while a writer holds or is waiting for the lock.
CanRLock == wlock = "free"

\* line 173, first half
LockRequest ==
  /\ alive /\ pc = "lock"
  /\ wlock' = "pending"
  /\ pc' = "lockwait"
  /\ UNCHANGED << probeVars, alive, now, files, loopLocals, store, readerVars, pubHist, bucketHist,
                  tickEvent, sweepHist >>

\* line 173, second half
LockAcquire ==
  /\ alive /\ pc = "lockwait"
  /\ CanLock
  /\ wlock' = "held"
  /\ pc' = "reset"
  /\ UNCHANGED << probeVars, alive, now, files, loopLocals, store, readerVars, pubHist, bucketHist,
                  tickEvent, sweepHist >>

\* The loop appending to the list of the previous cycle.
KeepList(old) == old

\* line 175
NewList(old) == << >>

ResetList ==
  /\ alive /\ pc = "reset"
  /\ CitiesWithRain' = NewList(CitiesWithRain)
  /\ idx' = 1
  /\ classifications' = classifications + 1
  /\ pc' = IF Len(Cities) = 0 THEN "create" ELSE "classify"
  /\ UNCHANGED << probeVars, alive, now, files, dateTxt, content, bitmap, color, wlock, readerVars,
                  pubHist, curKey, attempts, okFetches, tickEvent, sweepHist >>

\* One iteration of the range loop, lines 177-192.
ClassifyCity ==
  /\ alive /\ pc = "classify"
  /\ LET city == Cities[idx]
         x == ProjectX(city, RasterW)
         y == ProjectY(city, RasterH)
         c == getAvgColor(bitmap, x, y)
     IN IF IsRaining(c)
        THEN /\ bitmap' = Draw(bitmap, x, y, c)
             /\ color' = [color EXCEPT ![idx] = c]
             /\ CitiesWithRain' = Append(CitiesWithRain, idx)
        ELSE /\ bitmap' = Draw(bitmap, x, y, Black)
             /\ UNCHANGED << color, CitiesWithRain >>
  /\ idx' = idx + 1
  /\ pc' = IF idx = Len(Cities) THEN "create" ELSE "classify"
  /\ UNCHANGED << probeVars, alive, now, files, dateTxt, content, wlock, readerVars, pubHist,
                  bucketHist, tickEvent, sweepHist >>

\* lines 198-201: os.Create either makes the file or log.Fatal ends the process.
CreateFile ==
  /\ alive /\ pc = "create"
  /\ \E ok \in BOOLEAN :
       IF ok
       THEN /\ files' = [n \in DOMAIN files \cup {ArtifactName(dateTxt)} |->
                           IF n = ArtifactName(dateTxt) THEN now ELSE files[n]]
            /\ pc' = "encode"
            /\ UNCHANGED << alive, tickEvent >>
       ELSE /\ alive' = FALSE /\ pc' = "exited" /\ tickEvent' = "createfail"
            /\ UNCHANGED files
  /\ UNCHANGED << probeVars, now, loopLocals, store, wlock, readerVars, pubHist, bucketHist, sweepHist >>

\* lines 204-207
EncodeFile ==
  /\ alive /\ pc = "encode"
  /\ \E ok \in BOOLEAN :
       IF ok
       THEN /\ pc' = "return" /\ UNCHANGED << alive, tickEvent >>
       ELSE /\ alive' = FALSE /\ pc' = "exited" /\ tickEvent' = "encodefail"
  /\ UNCHANGED << probeVars, now, files, loopLocals, store, wlock, readerVars, pubHist, bucketHist, sweepHist >>

\* The closure returns: the deferred file.Close() and h.m.Unlock() run
\* (lines 174, 202, 208).
Return ==
  /\ alive /\ pc = "return"
  /\ wlock' = "free"
  /\ pc' = "sleep"
  /\ tickEvent' = "done"
  /\ published' = View
  /\ publishedRaster' = content
  /\ content' = None /\ bitmap' = NoBitmap /\ idx' = 0
  /\ UNCHANGED << probeVars, alive, now, files, dateTxt, store, readerVars, bucketHist, sweepHist >>

\* line 210
Sleep ==
  /\ alive /\ pc = "sleep"
  /\ \E d \in SleepSteps : d >= SleepMinutes /\ now + d <= MaxTime /\ now' = now + d
  /\ pc' = "start"
  /\ content' = None /\ bitmap' = NoBitmap /\ idx' = 0
  /\ UNCHANGED << probeVars, alive, files, dateTxt, store, wlock, readerVars, pubHist, bucketHist,
                  tickEvent, sweepHist >>

\* ------------------------------------------------------ HandleGet, lines 214-218
\* line 214: the server calls the handler for a request.
Arrive(r) ==
  /\ alive /\ rpc[r] = "idle"
  /\ rpc' = [rpc EXCEPT ![r] = "waiting"]
  /\ UNCHANGED << probeVars, alive, pc, now, files, loopLocals, store, wlock, rslice, rout, pubHist,
                  bucketHist, tickEvent, sweepHist >>

\* line 215
RLock(r) ==
  /\ alive /\ rpc[r] = "waiting"
  /\ CanRLock
  /\ rpc' = [rpc EXCEPT ![r] = "locked"]
  /\ UNCHANGED << probeVars, alive, pc, now, files, loopLocals, store, wlock, rslice, rout, pubHist,
                  bucketHist, tickEvent, sweepHist >>

\* line 217: the argument h.CitiesWithRain is evaluated.
ReadSlice(r) ==
  /\ alive /\ rpc[r] = "locked"
  /\ rslice' = [rslice EXCEPT ![r] = CitiesWithRain]
  /\ rout' = [rout EXCEPT ![r] = << >>]
  /\ rpc' = [rpc EXCEPT ![r] = "encoding"]
  /\ UNCHANGED << probeVars, alive, pc, now, files, loopLocals, store, wlock, pubHist, bucketHist,
                  tickEvent, sweepHist >>

\* line 217: Encode follows the next pointer and writes that City.
EncodeElem(r) ==
  /\ alive /\ rpc[r] = "encoding"
  /\ Len(rout[r]) < Len(rslice[r])
  /\ rout' = [rout EXCEPT ![r] = Append(@, Member(rslice[r][Len(@) + 1], color))]
  /\ UNCHANGED << probeVars, alive, pc, now, files, loopLocals, store, wlock, rpc, rslice, pubHist,
                  bucketHist, tickEvent, sweepHist >>

ResponseComplete(r) == rpc[r] = "encoding" /\ Len(rout[r]) = Len(rslice[r])

\* line 216: the deferred RUnlock.
RUnlock(r) ==
  /\ alive /\ ResponseComplete(r)
  /\ rpc' = [rpc EXCEPT ![r] = "idle"]
  /\ rslice' = [rslice EXCEPT ![r] = << >>]
  /\ rout' = [rout EXCEPT ![r] = << >>]
  /\ UNCHANGED << probeVars, alive, pc, now, files, loopLocals, store, wlock, pubHist, bucketHist,
                  tickEvent, sweepHist >>

HandleGet ==
  \E r \in Readers : Arrive(r) \/ RLock(r) \/ ReadSlice(r) \/ EncodeElem(r) \/ RUnlock(r)

Next ==
  \/ Janitor
  \/ CheckCache
  \/ FetchTakesTime
  \/ Fetch
  \/ DecodeImage
  \/ LockRequest
  \/ LockAcquire
  \/ ResetList
  \/ ClassifyCity
  \/ CreateFile
  \/ EncodeFile
  \/ Return
  \/ Sleep
  \/ HandleGet

Spec == Init /\ [][Next]_vars

\* ------------------------------------------------------------- scheduling
\* The goroutine of BackgroundLoop takes its next step whenever it has one.
LoopStep ==
  \/ Janitor
  \/ CheckCache
  \/ FetchTakesTime
  \/ Fetch
  \/ DecodeImage
  \/ LockRequest
  \/ LockAcquire
  \/ ResetList
  \/ ClassifyCity
  \/ CreateFile
  \/ EncodeFile
  \/ Return
  \/ Sleep

\* A HandleGet call that holds the read lock runs on to its return.
ReaderStep(r) == ReadSlice(r) \/ EncodeElem(r) \/ RUnlock(r)

\* The Go scheduler runs every runnable goroutine, and Unlock hands h.m to
\* the RLock calls that were blocked on it.  No request has to arrive.
FairSpec ==
  /\ Spec
  /\ WF_vars(LoopStep)
  /\ \A r \in Readers : WF_vars(ReaderStep(r)) /\ SF_vars(RLock(r))

\* ----------------------------------------- the computations of the loop body
\* The threshold test, the projection and the bucket key, each applied to
\* inputs of its own.
Channels == {0, 1, 127, 128, 129, 255}

ColourProbes == {[kind |-> "colour", rgb |-> <<r, g, b>>] : r, g, b \in Channels}

\* Longitudes and latitudes of the closed rectangle lon0..lon1, lat1..lat0.
LonProbes == {lon0, lon0 + 1, (lon0 + lon1) \div 2, lon1 - 1, lon1}

LatProbes == {lat1, lat1 + 1, (lat0 + lat1) \div 2, lat0 - 1, lat0}

PointProbes ==
  {[kind |-> "point", city |-> [Lat |-> la, Lon |-> lo], w |-> w, h |-> h] :
     la \in LatProbes, lo \in LonProbes, w \in 1..RasterW, h \in 1..RasterH}

\* Minutes on both sides of the end of an hour and of the end of a day.
TimeProbes == (StartTime - 50)..(StartTime - 30) \cup (1440 - 10)..(1440 + 10)

ClockProbes == {[kind |-> "clock", t1 |-> a, t2 |-> b] : a, b \in TimeProbes}

Probes == ColourProbes \cup PointProbes \cup ClockProbes

PureInit ==
  /\ Start
  /\ probe \in Probes
  /\ answer = << >>

\* line 182
ClassifyProbe ==
  /\ probe.kind = "colour" /\ answer = << >>
  /\ answer' = << IsRaining(probe.rgb) >>
  /\ UNCHANGED << probe, progVars >>

\* lines 178-179 with the pixel sizes of lines 170-171
ProjectProbe ==
  /\ probe.kind = "point" /\ answer = << >>
  /\ answer' = << ProjectX(probe.city, probe.w), ProjectY(probe.city, probe.h) >>
  /\ UNCHANGED << probe, progVars >>

\* lines 146-150, at two readings of the clock
BucketProbe ==
  /\ probe.kind = "clock" /\ answer = << >>
  /\ answer' = << DateTxt(probe.t1), DateTxt(probe.t2) >>
  /\ UNCHANGED << probe, progVars >>

PureNext ==
  \/ ClassifyProbe
  \/ ProjectProbe
  \/ BucketProbe

PureSpec == PureInit /\ [][PureNext]_vars

TypeOK ==
  /\ alive \in BOOLEAN
  /\ now \in StartTime..MaxTime
  /\ wlock \in {"free", "pending", "held"}
  /\ idx \in 0..(Len(Cities) + 1)


\* ================================================================= claims

Dead == {"crashed", "exited"}

\* The classification loop as a function of the decoded bitmap: the members
\* it leaves in the list, with the colours it stores in them.
ClassifyAll(bm0) ==
  LET after[i \in 0..Len(Cities)] ==
        IF i = 0 THEN [bm |-> bm0, view |-> << >>]
        ELSE LET prev == after[i - 1]
                 x == ProjectX(Cities[i], RasterW)
                 y == ProjectY(Cities[i], RasterH)
                 c == getAvgColor(prev.bm, x, y)
             IN IF IsRaining(c)
                THEN [bm |-> Draw(prev.bm, x, y, c),
                      view |-> Append(prev.view, Member(i, [k \in CityIdx |-> c]))]
                ELSE [bm |-> Draw(prev.bm, x, y, Black), view |-> prev.view]
  IN after[Len(Cities)].view

\* The pairs of a raster and the view the loop leaves on it.
ExpectedViews == {<<id, ClassifyAll(Decode(id))>> : id \in RasterIds}

ExpectedView(id) == (CHOOSE p \in ExpectedViews : p[1] = id)[2]

InRaster(x, y) == 0 <= x /\ x < RasterW /\ 0 <= y /\ y < RasterH

\* C1: whatever the interleaving of the cycle with the HandleGet calls, the
\* slice a call encodes is the whole list left by the last cycle that
\* returned (the empty one before the first), and what the call has written
\* so far is a prefix of that cycle's view, members and colours alike.
C1_ReadersSeeWholeSnapshot ==
  \A r \in Readers :
    rpc[r] = "encoding" =>
      /\ Len(rslice[r]) = Len(published)
      /\ Len(rout[r]) <= Len(published)
      /\ \A k \in 1..Len(rout[r]) : rout[r][k] = published[k]

\* A call has written a complete, non-empty response while the cycle is
\* waiting for the lock to publish the next one.
C1_Witness ==
  \E r \in Readers :
    /\ ResponseComplete(r) /\ Len(rout[r]) > 0
    /\ wlock = "pending"
    /\ publishedRaster # None

\* C2 (as stated): at most one download and one classification per
\* TimeBucket.
C2_OneFetchPerBucket == attempts <= 1 /\ classifications <= 1

\* C2 (amended): per TimeBucket at most one download returns a body and at
\* most one classification runs, and a download is only started in a bucket
\* in which none has returned a body yet; failed downloads are retried.
C2_OneSuccessfulFetchPerBucket ==
  /\ okFetches <= 1
  /\ classifications <= 1
  /\ pc = "fetch" => (okFetches = 0 /\ classifications = 0)

\* The tick after a completed cycle, in the same bucket, has skipped.
C2_Witness ==
  /\ tickEvent = "skip" /\ pc = "sleep"
  /\ curKey = dateTxt
  /\ okFetches = 1 /\ classifications = 1 /\ attempts = 1

\* C3: a failed download (transport error or status other than 200) leaves
\* the process running, the published view current and no artifact written.
C3_FetchFailureAbortsTickOnly ==
  tickEvent \in {"neterror", "badstatus"} =>
    /\ alive
    /\ View = published
    /\ ~Exists(files, ArtifactName(dateTxt))

\* C4: a body that does not decode aborts the tick only: the process keeps
\* running with the published view and writes no artifact.
C4_DecodeFailureAbortsTickOnly ==
  tickEvent = "decodefail" =>
    /\ alive
    /\ pc = "sleep"
    /\ View = published
    /\ ~Exists(files, ArtifactName(dateTxt))

\* C5: the loop never ends: whatever happens in a loop body, the loop goes
\* on to sleep and to the next body.
C5_LoopNeverTerminates == pc \notin Dead

\* C6: a failure of os.Create or of imaging.Encode does not stop the view
\* computed in that tick from being published: the process lives on.
C6_PersistFailureStillPublishes ==
  tickEvent \in {"createfail", "encodefail"} => (alive /\ pc \notin Dead)

\* C7: no member of the list projects to a pixel outside the raster.
C7_OutOfBoundsNeverListed ==
  \A k \in 1..Len(CitiesWithRain) :
    InRaster(ProjectX(Cities[CitiesWithRain[k]], RasterW),
             ProjectY(Cities[CitiesWithRain[k]], RasterH))

\* C8: every member of the list, and every member a HandleGet call has
\* written, has a stored colour with r + g + b > 0.
C8_NoClearMember ==
  /\ \A k \in 1..Len(View) : View[k].R + View[k].G + View[k].B > 0
  /\ \A r \in Readers : \A k \in 1..Len(rout[r]) :
       rout[r][k].R + rout[r][k].G + rout[r][k].B > 0

\* A cycle has returned with a non-empty list and a call has written a
\* member of it.
C8_Witness ==
  /\ pc = "sleep" /\ tickEvent = "done"
  /\ Len(CitiesWithRain) > 0
  /\ \E r \in Readers : Len(rout[r]) > 0

\* C9: when a cycle returns, the list holds exactly the cities its loop
\* classified raining on its raster, in order and once each, with the
\* colours it sampled, whatever earlier cycles had listed; and the list
\* stays that way until the next cycle takes the lock.
C9_RecomputedFromScratch ==
  /\ wlock # "held" => View = published
  /\ (pc = "sleep" /\ tickEvent = "done") =>
       /\ View = ExpectedView(publishedRaster)
       /\ \A j, k \in 1..Len(CitiesWithRain) :
            CitiesWithRain[j] = CitiesWithRain[k] => j = k

\* A cycle on the clear raster has returned after a cycle that had listed
\* cities: the list is empty although the cities still carry colours.
C9_Witness ==
  /\ tickEvent = "done" /\ pc = "sleep"
  /\ publishedRaster = "clear"
  /\ CitiesWithRain = << >>
  /\ \E c \in CityIdx : color[c] # Black

SweepStep == pc = "start" /\ pc' = "check"

CycleIO == {"fetch", "decode", "create", "encode"}

\* C11: h.m is never held across I/O: the cycle does not hold it while it
\* downloads, decodes or writes the artifact, and no HandleGet call holds it
\* while it writes its response.
C11_NoIOUnderLock ==
  /\ pc \in CycleIO => wlock # "held"
  /\ \A r \in Readers : rpc[r] # "encoding"

\* C12: neither side waits for h.m for ever: every HandleGet call that has
\* started goes on to write its whole response, and whenever the cycle holds
\* the lock it later releases it, unless the process has ended.
C12_NeitherSideBlocksForever ==
  /\ \A r \in Readers : (rpc[r] = "waiting") ~> ResponseComplete(r)
  /\ (wlock = "held") ~> (wlock = "free" \/ ~alive)

\* C13: a tick that finds the artifact of the current bucket goes to sleep
\* without a download, a classification or the write lock, and from then to
\* the next tick the list, the colours and the files stay as they are, the
\* artifact included.
C13_SkipChangesNothing ==
  [][/\ (pc = "check" /\ pc' # "check" /\ ArtifactName(DateTxt(now)) \in DOMAIN files)
          => (pc' = "sleep" /\ tickEvent' = "skip")
     /\ tickEvent' = "skip" =>
          /\ pc' \in {"sleep", "start"}
          /\ wlock = "free" /\ wlock' = "free"
          /\ ArtifactName(dateTxt') \in DOMAIN files'
          /\ UNCHANGED << CitiesWithRain, color, published, files, content, bitmap >>
          /\ attempts' <= attempts
          /\ okFetches' <= okFetches
          /\ classifications' <= classifications]_vars

\* A skipped tick has slept with a non-empty list in place.
C13_Witness ==
  /\ tickEvent = "skip" /\ pc = "start"
  /\ Len(CitiesWithRain) > 0
  /\ ArtifactName(dateTxt) \in DOMAIN files

\* C14: an averaged colour is classified raining if and only if the integer
\* sum of its channels is positive, that is, unless it is (0, 0, 0).
C14_RainingIffIntegerSumPositive ==
  (probe.kind = "colour" /\ answer # << >>) =>
    (answer[1] <=> (probe.rgb[1] + probe.rgb[2] + probe.rgb[3] > 0))

\* C15: every city is sampled as if no marker had been drawn: what the loop
\* is about to sample for the city at idx equals the sample at that pixel of
\* the raster as it was decoded.
C15_AnnotationDoesNotAffectClassification ==
  pc = "classify" =>
    LET x == ProjectX(Cities[idx], RasterW)
        y == ProjectY(Cities[idx], RasterH)
    IN getAvgColor(bitmap, x, y) = getAvgColor(Decode(content), x, y)

\* The positions of a tick that downloads, in the order of the code.
TickOrder ==
  << "fetch", "decode", "lock", "lockwait", "reset", "classify", "create", "encode",
     "return" >>

Position(p) == CHOOSE k \in 1..Len(TickOrder) : TickOrder[k] = p

InTick(p) == \E k \in 1..Len(TickOrder) : TickOrder[k] = p

\* C16: a tick that downloads goes through fetch, decode, classify, persist
\* and publish in that order, and no HandleGet call reads the list between
\* the start of the classification and the unlock, which comes only after
\* the artifact of the tick's bucket has been created and encoded.
C16_PublishAfterPersist ==
  [][/\ (pc' # pc /\ InTick(pc') /\ pc' # "fetch") =>
          (InTick(pc) /\ Position(pc') = Position(pc) + 1)
     /\ (InTick(pc) /\ Position(pc) >= Position("reset")) =>
          (wlock = "held" /\ \A r \in Readers : ~Reading(r))
     /\ (\E r \in Readers : Reading(r)) => View = published
     /\ (wlock = "held" /\ wlock' # "held") =>
          /\ pc = "return"
          /\ ArtifactName(dateTxt) \in DOMAIN files
          /\ published' = View
          /\ \A r \in Readers : ~Reading(r)
     /\ published' # published => (pc = "return" /\ ArtifactName(dateTxt) \in DOMAIN files)]_vars

\* A call has written the whole of a non-empty list that a cycle left
\* after creating its artifact.
C16_Witness ==
  /\ tickEvent = "done"
  /\ ArtifactName(dateTxt) \in DOMAIN files
  /\ Len(published) > 0
  /\ \E r \in Readers : ResponseComplete(r) /\ rout[r] = published

\* C17: a point of the closed rectangle lon0..lon1, lat1..lat0 projects to a
\* pixel of the raster, whatever the raster's size.
C17_ProjectionWithinRaster ==
  (probe.kind = "point" /\ answer # << >>) =>
    /\ 0 <= answer[1] /\ answer[1] < probe.w
    /\ 0 <= answer[2] /\ answer[2] < probe.h

\* The number a sequence of decimal digits stands for.
DigitsValue(ds) ==
  LET val[i \in 0..Len(ds)] == IF i = 0 THEN 0 ELSE 10 * val[i - 1] + ds[i]
  IN val[Len(ds)]

\* The minute a bucket key names.
KeyMinutes(key) ==
  DigitsValue(SubSeq(key, 1, 8)) * 1440 + DigitsValue(SubSeq(key, 10, 11)) * 60
    + DigitsValue(SubSeq(key, 12, 13))

\* C18: the key names the start b of the 10-minute window of t: b is a
\* multiple of 10 minutes with b <= t < b + 10; and two times get the same
\* key exactly when they lie in the same window.
C18_BucketIsTenMinuteFloor ==
  (probe.kind = "clock" /\ answer # << >>) =>
    LET b == KeyMinutes(answer[1])
    IN /\ b % BucketMinutes = 0
       /\ b <= probe.t1 /\ probe.t1 < b + BucketMinutes
       /\ (answer[1] = answer[2]) <=>
            (probe.t1 \div BucketMinutes = probe.t2 \div BucketMinutes)

\* The last minute of an hour and the first minute of its window share a
\* key.
C18_Witness ==
  /\ probe.kind = "clock" /\ answer # << >>
  /\ probe.t1 % 60 = 59 /\ probe.t2 = probe.t1 - 9
  /\ answer[1] = answer[2]

\* C19: the sweep leaves the artifact of the current bucket in place, that
\* artifact being younger than 10 minutes; so a tick in a bucket whose
\* artifact was written does not download again.
C19_SweepKeepsCurrentBucket ==
  [][/\ (SweepStep /\ ArtifactName(DateTxt(now)) \in DOMAIN files) =>
          /\ ArtifactName(DateTxt(now)) \in DOMAIN files'
          /\ now - files[ArtifactName(DateTxt(now))] < BucketMinutes
     /\ (pc = "check" /\ pc' = "fetch") =>
          (okFetches' = 0 /\ ArtifactName(DateTxt(now)) \notin swept)]_vars

\* A sweep has removed an old artifact and the artifact of the current
\* bucket is still there.
C19_Witness ==
  /\ pc = "check"
  /\ swept # {}
  /\ ArtifactName(DateTxt(now)) \in DOMAIN files

====
